---------------------------- MODULE Spec2Model ----------------------------
(***************************************************************************)
(* A model of BinanceService (src/src/binance-service.ts): the signed      *)
(* request client with its retry loop, the price cache, the two price      *)
(* operations and the portfolio valuation.                                  *)
(*                                                                         *)
(* Every asynchronous call of the service is a task.  A task runs from one *)
(* await to the next in one step (JavaScript runs a continuation to its    *)
(* next suspension without interleaving), and tasks interleave only at     *)
(* awaits: a pending HTTP response or a pending backoff timer.             *)
(*                                                                         *)
(* Representation.                                                         *)
(*   - Trading symbols and cache keys are sequences of UTF-16 code units,  *)
(*     so that Array.prototype.sort and join(',') are computed, not        *)
(*     assumed.                                                            *)
(*   - Query strings and error messages are strings built with \o.         *)
(*   - HMAC-SHA256 is a symbolic digest of (secret, message).              *)
(*   - Decimal numbers are fixed point: amounts and quoted prices count    *)
(*     hundredths, resolved prices count 1/10^4, values count 1/10^6.      *)
(*     Rounding of IEEE doubles is not modelled.                           *)
(*   - Time is the millisecond clock Date.now().                           *)
(***************************************************************************)
EXTENDS Integers, Sequences, FiniteSets, TLC

VARIABLES
    apiKey,      \* this.apiKey, read once by the constructor
    apiSecret,   \* this.apiSecret
    now,         \* Date.now()
    wallet,      \* the balances the exchange holds for the account
    pc,          \* pc[t]: where task t is suspended
    op,          \* op[t]: the public call task t is serving, with its arguments
    result,      \* result[t]: what the call of task t returned or threw
    calls,       \* number of calls issued so far
    market,      \* the ticker of the exchange: its list of PriceData
    mr,          \* mr[t]: the locals of makeRequest (retries, attempt, config)
    sent,        \* sent[t]: the HTTP attempts makeRequest has issued
    waits,       \* waits[t]: the backoff waits makeRequest has started
    got,         \* got[t]: the outcomes of the attempts of makeRequest
    priceCache,  \* this.priceCache
    sp,          \* sp[t]: the locals of getSymbolPrices
    http,        \* http[t]: the price requests the call of task t has issued
    acct,        \* acct[t]: accountInfo of calculateTotalAssets
    fetched,     \* fetched[t]: prices of calculateTotalAssets
    answers,     \* answers[t]: how each per-symbol request of the call settled
    stores,      \* history: the latest store under each cache key
    returned,    \* history: the latest return of a price call
    prev         \* prev[t]: the history of the call of task t when it was issued

envVars == <<apiKey, apiSecret, now, wallet, market>>
ctlVars == <<pc, op, result, calls>>
reqVars == <<mr, sent, waits, got>>
priceVars == <<priceCache, sp, http, acct, fetched, answers>>
histVars == <<stores, returned, prev>>
vars == <<envVars, ctlVars, reqVars, priceVars, histVars>>

-----------------------------------------------------------------------------
(* Bounds of the model *)

\* calls issued in one behaviour
MaxCalls == 2
\* largest retries argument tried
MaxRetries == 3
\* last instant of the clock in the request specification
MaxRequestTime == 20000
\* longest time the model lets a pending HTTP request take (axios gives up at
\* its timeout; the model uses a shorter one)
MaxLatency == 1000
\* last instant of the clock in the price specification
MaxPriceTime == 1500

Tasks == {"t1", "t2"}

NoCall == [name |-> "none", args |-> <<>>]

Credentials == {"", "k"}

-----------------------------------------------------------------------------
(* makeRequest: building the signed request *)

\* crypto.createHmac('sha256', secret).update(msg).digest('hex'), as a symbol
HmacSha256Hex(secret, msg) == "hmac(" \o secret \o "," \o msg \o ")"

createSignature(secret, queryString) ==
    IF secret = "" \/ queryString = "" THEN "" ELSE HmacSha256Hex(secret, queryString)

RECURSIVE JoinParams(_)
\* Object.entries(queryParams).map(([k, v]) => `${k}=${v}`).join('&')
JoinParams(params) ==
    IF Len(params) = 0 THEN ""
    ELSE IF Len(params) = 1 THEN params[1][1] \o "=" \o params[1][2]
    ELSE params[1][1] \o "=" \o params[1][2] \o "&" \o JoinParams(Tail(params))

BuildQueryString(params) == IF Len(params) > 0 THEN JoinParams(params) ELSE ""

\* the timestamp appended with its separator whether or not parameters precede
FinalQueryStringAlwaysJoined(params, timestamp) ==
    BuildQueryString(params) \o "&timestamp=" \o ToString(timestamp)

FinalQueryString(params, timestamp) ==
    IF BuildQueryString(params) # ""
    THEN BuildQueryString(params) \o "&timestamp=" \o ToString(timestamp)
    ELSE "timestamp=" \o ToString(timestamp)

\* the axios config built once, before the retry loop
BuildConfig(endpoint, params, httpMethod, timestamp) ==
    LET final == FinalQueryString(params, timestamp)
        signature == createSignature(apiSecret, final)
        full == final \o "&signature=" \o signature
    IN  [method    |-> httpMethod,
         endpoint  |-> endpoint,
         key       |-> apiKey,
         timestamp |-> timestamp,
         signed    |-> final,
         signature |-> signature,
         url       |-> IF httpMethod = "GET" THEN endpoint \o "?" \o full ELSE endpoint,
         data      |-> IF httpMethod = "GET" THEN "" ELSE full]

NoConfig == BuildConfig("", <<>>, "GET", 0)

\* the credential check looking at the key alone
MissingKeyOnly == apiKey = ""

\* line 57
MissingCredentials == apiKey = "" \/ apiSecret = ""

-----------------------------------------------------------------------------
(* makeRequest: one iteration of the retry loop *)

validateStatus(status) == status < 500

NetworkCodes == {"ECONNREFUSED", "ETIMEDOUT", "ENOTFOUND"}

\* What one axios(config) call can end in.
\*   response:   the exchange answered with a status and a body
\*   network:    an error with one of the three network codes, no response
\*   noresponse: an error with error.request set and another code
\*               (axios reports its own timeout as ECONNABORTED)
\*   setup:      an error with neither response nor request
Statuses == {200, 400, 429, 503}

Outcomes ==
    [kind : {"response"}, status : Statuses, code : {""}]
    \cup [kind : {"network"}, status : {0}, code : NetworkCodes]
    \cup [kind : {"noresponse"}, status : {0}, code : {"ECONNABORTED"}]
    \cup [kind : {"setup"}, status : {0}, code : {""}]

\* the JavaScript value undefined
Undefined == [type |-> "undefined"]

StepReturn(v)  == [next |-> "return", value |-> v, error |-> "", ms |-> 0]
StepThrow(e)   == [next |-> "throw", value |-> Undefined, error |-> e, ms |-> 0]
StepWait(ms)   == [next |-> "wait", value |-> Undefined, error |-> "", ms |-> ms]

\* the body of the try block for a response axios resolved with
OnResolved(attempt, retries, o, body) ==
    IF o.status >= 400
    THEN IF o.status = 429
         THEN StepWait(attempt * 2000)
         \* thrown inside the try: the catch sees no response, code or request
         \* on it and rethrows it
         ELSE StepThrow("API Error " \o ToString(o.status) \o ": msg")
    ELSE StepReturn(body)

\* the catch block retrying every error status, not only 429
OnRejectedRetryingAnyStatus(attempt, retries, o) ==
    IF o.kind = "response"
    THEN IF attempt < retries
         THEN StepWait(attempt * 2000)
         ELSE StepThrow("API Error: msg")
    ELSE StepThrow("Network Error")

\* the catch block waiting 2000 ms whatever the attempt and the class
OnRejectedFlatBackoff(attempt, retries, o) ==
    IF o.kind = "response"
    THEN IF o.status = 429 /\ attempt < retries
         THEN StepWait(2000)
         ELSE StepThrow("API Error: msg")
    ELSE IF o.code \in NetworkCodes
    THEN IF attempt < retries
         THEN StepWait(2000)
         ELSE StepThrow("Network Error: " \o o.code)
    ELSE IF o.kind = "noresponse"
    THEN IF attempt < retries
         THEN StepWait(2000)
         ELSE StepThrow("Network Error: No response from server after "
                            \o ToString(retries) \o " attempts")
    ELSE StepThrow("setup error")

\* the catch block
OnRejected(attempt, retries, o) ==
    IF o.kind = "response"
    THEN IF o.status = 429 /\ attempt < retries
         THEN StepWait(attempt * 2000)
         ELSE StepThrow("API Error: msg")
    ELSE IF o.code \in NetworkCodes
    THEN IF attempt < retries
         THEN StepWait(attempt * 2000)
         ELSE StepThrow("Network Error: " \o o.code)
    ELSE IF o.kind = "noresponse"
    THEN IF attempt < retries
         THEN StepWait(attempt * 3000)
         ELSE StepThrow("Network Error: No response from server after "
                            \o ToString(retries) \o " attempts")
    ELSE StepThrow("setup error")

HandleAttempt(attempt, retries, o, body) ==
    IF o.kind = "response" /\ validateStatus(o.status)
    THEN OnResolved(attempt, retries, o, body)
    ELSE OnRejected(attempt, retries, o)

-----------------------------------------------------------------------------
(* Strings of UTF-16 code units *)

\* "USDT", "BTC", "allPrices" and ","
USDT == <<85, 83, 68, 84>>
BTC == <<66, 84, 67>>
AllPricesKey == <<97, 108, 108, 80, 114, 105, 99, 101, 115>>
Comma == <<44>>

RECURSIVE LexLess(_, _)
\* a sorts before b under the default comparator of Array.prototype.sort:
\* code unit by code unit, a proper prefix first
LexLess(a, b) ==
    IF Len(b) = 0 THEN FALSE
    ELSE IF Len(a) = 0 THEN TRUE
    ELSE IF a[1] # b[1] THEN a[1] < b[1]
    ELSE LexLess(Tail(a), Tail(b))

RECURSIVE InsertSorted(_, _)
InsertSorted(x, sorted) ==
    IF Len(sorted) = 0 THEN <<x>>
    ELSE IF LexLess(x, sorted[1]) THEN <<x>> \o sorted
    ELSE <<sorted[1]>> \o InsertSorted(x, Tail(sorted))

\* the list left in the order of the caller
Unsorted(symbols) == symbols

RECURSIVE SortSymbols(_)
\* symbols.sort(): the list in ascending order (equal strings are
\* indistinguishable, so stability does not show)
SortSymbols(symbols) ==
    IF Len(symbols) = 0 THEN <<>>
    ELSE InsertSorted(symbols[Len(symbols)], SortSymbols(SubSeq(symbols, 1, Len(symbols) - 1)))

RECURSIVE Join(_, _)
\* list.join(sep)
Join(list, sep) ==
    IF Len(list) = 0 THEN <<>>
    ELSE IF Len(list) = 1 THEN list[1]
    ELSE list[1] \o sep \o Join(Tail(list), sep)

\* the cache key of getSymbolPrices
SymbolsKey(symbols) == Join(SortSymbols(symbols), Comma)

-----------------------------------------------------------------------------
(* Numbers *)

\* the result of parseFloat on a string that does not start with a number
NaN == -1
\* currentPrice of an asset no quote resolves
Null == -2

IsDigit(c) == c \in 48..57

RECURSIVE DigitRun(_, _)
\* how many digits s holds from position i on
DigitRun(s, i) == IF i <= Len(s) /\ IsDigit(s[i]) THEN 1 + DigitRun(s, i + 1) ELSE 0

RECURSIVE DigitsValue(_)
DigitsValue(s) == IF Len(s) = 0 THEN 0
                  ELSE 10 * DigitsValue(SubSeq(s, 1, Len(s) - 1)) + (s[Len(s)] - 48)

\* parseFloat(s), in hundredths: the longest prefix digits[.digits] of s, NaN
\* when that prefix holds no digit.  Signs, exponents and leading blanks are
\* not modelled, and digits past the second decimal are dropped.
parseFloat(s) ==
    LET n == DigitRun(s, 1)
        dot == n + 1 <= Len(s) /\ s[n + 1] = 46
        m == IF dot THEN DigitRun(s, n + 2) ELSE 0
        whole == DigitsValue(SubSeq(s, 1, n))
        frac == IF m = 0 THEN 0
                ELSE IF m = 1 THEN 10 * (s[n + 2] - 48)
                ELSE 10 * (s[n + 2] - 48) + (s[n + 3] - 48)
    IN  IF n = 0 /\ m = 0 THEN NaN ELSE 100 * whole + frac

\* parseFloat(s) || 0
ParseOrZero(s) == IF parseFloat(s) = NaN THEN 0 ELSE parseFloat(s)

\* a * b and a > b in floating point, NaN propagating
Times(a, b) == IF a = NaN \/ b = NaN THEN NaN ELSE a * b
Greater(a, b) == a # NaN /\ b # NaN /\ a > b

-----------------------------------------------------------------------------
(* calculateTotalAssets: the valuation of balances against a price list *)

\* 0.01, in the unit of values (1/10^6)
MaterialityThreshold == 10000
\* the number of held assets from which on the full snapshot is fetched
SnapshotThreshold == 50

Total(balance) == ParseOrZero(balance.free) + ParseOrZero(balance.locked)

RECURSIVE HeldAssets(_)
\* lines 219-225
HeldAssets(balances) ==
    IF Len(balances) = 0 THEN <<>>
    ELSE (IF Total(balances[1]) > 0 THEN <<balances[1].asset>> ELSE <<>>)
             \o HeldAssets(Tail(balances))

RECURSIVE PairsToFetchKeepingUsdt(_)
\* the pairs without the filter: USDT is asked for as USDTUSDT
PairsToFetchKeepingUsdt(held) ==
    IF Len(held) = 0 THEN <<>>
    ELSE <<held[1] \o USDT>> \o PairsToFetchKeepingUsdt(Tail(held))

RECURSIVE PairsToFetch(_)
\* line 230: every held asset's USDT pair, USDTUSDT filtered out
PairsToFetch(held) ==
    IF Len(held) = 0 THEN <<>>
    ELSE LET symbol == IF held[1] = USDT THEN USDT \o USDT ELSE held[1] \o USDT
         IN  (IF symbol # USDT \o USDT THEN <<symbol>> ELSE <<>>)
                 \o PairsToFetch(Tail(held))

\* priceMap.has(symbol), priceMap.get(symbol): the map built by lines 233-236,
\* where a later entry of the list overwrites an earlier one
Has(prices, symbol) == \E i \in 1..Len(prices) : prices[i].symbol = symbol
Get(prices, symbol) ==
    LET last == CHOOSE i \in 1..Len(prices) :
                    /\ prices[i].symbol = symbol
                    /\ \A j \in (i + 1)..Len(prices) : prices[j].symbol # symbol
    IN  parseFloat(prices[last].price)

\* the resolution trying the bridge before the direct pair
ResolveBridgeFirst(balance, prices) ==
    LET total == Total(balance)
        usdtPair == balance.asset \o USDT
        btcPair == balance.asset \o BTC
    IN  IF balance.asset = USDT
        THEN [currentPrice |-> 10000, usdtValue |-> Times(total, 10000)]
        ELSE IF Has(prices, btcPair) /\ Has(prices, BTC \o USDT)
        THEN [currentPrice |-> Times(Get(prices, btcPair), Get(prices, BTC \o USDT)),
              usdtValue |-> Times(total, Times(Get(prices, btcPair), Get(prices, BTC \o USDT)))]
        ELSE IF Has(prices, usdtPair)
        THEN [currentPrice |-> Times(Get(prices, usdtPair), 100),
              usdtValue |-> Times(total, Times(Get(prices, usdtPair), 100))]
        ELSE [currentPrice |-> Null, usdtValue |-> 0]

\* lines 246-266: currentPrice (in 1/10^4, or Null) and usdtValue (in 1/10^6)
\* of one balance with total > 0
Resolve(balance, prices) ==
    LET total == Total(balance)
        usdtPair == balance.asset \o USDT
        btcPair == balance.asset \o BTC
    IN  IF balance.asset = USDT
        THEN [currentPrice |-> 10000, usdtValue |-> Times(total, 10000)]
        ELSE IF Has(prices, usdtPair)
        THEN [currentPrice |-> Times(Get(prices, usdtPair), 100),
              usdtValue |-> Times(total, Times(Get(prices, usdtPair), 100))]
        ELSE IF Has(prices, btcPair) /\ Has(prices, BTC \o USDT)
        THEN [currentPrice |-> Times(Get(prices, btcPair), Get(prices, BTC \o USDT)),
              usdtValue |-> Times(total, Times(Get(prices, btcPair), Get(prices, BTC \o USDT)))]
        ELSE [currentPrice |-> Null, usdtValue |-> 0]

\* the filter keeping every positive value
Positive(usdtValue) == Greater(usdtValue, 0)

\* line 268
Material(usdtValue) == Greater(usdtValue, MaterialityThreshold)

RECURSIVE ParsedAssets(_, _)
\* lines 241-281: the assets pushed, in the order of the balances
ParsedAssets(balances, prices) ==
    IF Len(balances) = 0 THEN <<>>
    ELSE LET b == balances[1]
             r == Resolve(b, prices)
         IN  (IF Total(b) > 0 /\ Material(r.usdtValue)
              THEN <<[asset |-> b.asset, free |-> ParseOrZero(b.free),
                      locked |-> ParseOrZero(b.locked), total |-> Total(b),
                      usdtValue |-> r.usdtValue, type |-> "spot",
                      currentPrice |-> r.currentPrice]>>
              ELSE <<>>) \o ParsedAssets(Tail(balances), prices)

RECURSIVE SumValues(_)
\* totalUSDT, accumulated at line 278
SumValues(assets) ==
    IF Len(assets) = 0 THEN 0 ELSE assets[1].usdtValue + SumValues(Tail(assets))

RECURSIVE InsertAscending(_, _)
\* the comparator with its operands swapped: a.usdtValue - b.usdtValue
InsertAscending(x, sorted) ==
    IF Len(sorted) = 0 THEN <<x>>
    ELSE IF x.usdtValue <= sorted[1].usdtValue THEN <<x>> \o sorted
    ELSE <<sorted[1]>> \o InsertAscending(x, Tail(sorted))

RECURSIVE InsertByValue(_, _)
InsertByValue(x, sorted) ==
    IF Len(sorted) = 0 THEN <<x>>
    ELSE IF x.usdtValue >= sorted[1].usdtValue THEN <<x>> \o sorted
    ELSE <<sorted[1]>> \o InsertByValue(x, Tail(sorted))

RECURSIVE SortByValue(_)
\* line 283: assets.sort((a, b) => b.usdtValue - a.usdtValue), a stable sort
SortByValue(assets) ==
    IF Len(assets) = 0 THEN <<>>
    ELSE InsertByValue(assets[1], SortByValue(Tail(assets)))

\* lines 233-290
Valuate(balances, prices) ==
    [type |-> "portfolio",
     totalUSDT |-> SumValues(ParsedAssets(balances, prices)),
     assets |-> SortByValue(ParsedAssets(balances, prices))]

-----------------------------------------------------------------------------
(* The exchange: the tickers and the account balances tried *)

ETH == <<69, 84, 72>>
XYZ == <<88, 89, 90>>

Quote(symbol, price) == [symbol |-> symbol, price |-> price]
Balance(asset, free, locked) == [asset |-> asset, free |-> free, locked |-> locked]

\* BTCUSDT 500, ETHUSDT 0.5, XYZBTC 0.01: XYZ has no direct quote
BridgeMarket ==
    << Quote(BTC \o USDT, <<53, 48, 48>>),
       Quote(ETH \o USDT, <<48, 46, 53>>),
       Quote(XYZ \o BTC, <<48, 46, 48, 49>>) >>

\* USDTUSDT 2, XYZUSDT 2, XYZBTC 0.01, BTCUSDT 500.00, ETHUSDT "n/a"
DirectMarket ==
    << Quote(USDT \o USDT, <<50>>),
       Quote(XYZ \o USDT, <<50>>),
       Quote(XYZ \o BTC, <<48, 46, 48, 49>>),
       Quote(BTC \o USDT, <<53, 48, 48, 46, 48, 48>>),
       Quote(ETH \o USDT, <<110, 47, 97>>) >>

Markets == { BridgeMarket, DirectMarket, <<>> }
\* the tickers the market moves between
PriceMarkets == { BridgeMarket, <<>> }

\* XYZ 2, ETH 0.01
AltWallet == << Balance(XYZ, <<50>>, <<48>>), Balance(ETH, <<48, 46, 48, 49>>, <<48>>) >>
\* BTC 1, USDT 100 (locked ""), ETH 0
MainWallet ==
    << Balance(BTC, <<49>>, <<48>>),
       Balance(USDT, <<49, 48, 48>>, <<>>),
       Balance(ETH, <<48>>, <<48, 46, 48, 48>>) >>
\* XYZ 1.5 + 0.5
XyzWallet == << Balance(XYZ, <<49, 46, 53>>, <<48, 46, 53>>) >>
\* XYZ 2 and as many other assets, 1 of each, as reach SnapshotThreshold
WideWallet ==
    [i \in 1..SnapshotThreshold |->
        IF i = 1 THEN Balance(XYZ, <<50>>, <<48>>) ELSE Balance(<<200 + i>>, <<49>>, <<48>>)]

\* USDT 1, BTC 1: the smaller value first
SmallFirstWallet == << Balance(USDT, <<49>>, <<48>>), Balance(BTC, <<49>>, <<48>>) >>

Wallets == { <<>>, AltWallet, MainWallet, XyzWallet, WideWallet, SmallFirstWallet }

-----------------------------------------------------------------------------
(* Results of calls *)

NoResult == [kind |-> "none", value |-> Undefined, error |-> ""]
Returned(v) == [kind |-> "value", value |-> v, error |-> ""]
Threw(e) == [kind |-> "error", value |-> Undefined, error |-> e]

\* the body of GET /api/v3/account
AccountInfo(balances) == [type |-> "account", balances |-> balances]
\* a list of PriceData
Prices(list) == [type |-> "prices", list |-> list]

-----------------------------------------------------------------------------
(* The price cache *)

\* this.priceCacheDuration
priceCacheDuration == 1000

EmptyCache == [k \in {} |-> 0]

CacheHas(cache, key) == key \in DOMAIN cache

\* this.priceCache.set(key, {data, timestamp: Date.now()})
CacheSet(cache, key, data, time) ==
    [k \in DOMAIN cache \cup {key} |->
        IF k = key THEN [data |-> data, timestamp |-> time] ELSE cache[k]]

\* the cache test without the age of the entry
FreshAtAnyAge(cache, key, time) == CacheHas(cache, key)

\* cached && (Date.now() - cached.timestamp) < this.priceCacheDuration
Fresh(cache, key, time) ==
    CacheHas(cache, key) /\ (time - cache[key].timestamp) < priceCacheDuration

-----------------------------------------------------------------------------
(* One task's run from an await to the next, as a function of the machine  *)
(* m: the task's locals and the shared cache.  `caller` is the public call  *)
(* the task serves: it names the frames below the current one.  m.writer    *)
(* names the function whose priceCache.set the run has executed.           *)

NoSymbols == [symbols |-> <<>>, key |-> <<>>, idx |-> 0, prices |-> <<>>]

AllPricesRequest == [path |-> "/api/v3/ticker/price", symbol |-> <<>>]
SymbolRequest(symbol) == [path |-> "/api/v3/ticker/price?symbol=", symbol |-> symbol]

Done(m, res) == [m EXCEPT !.pc = "done", !.result = res]

\* a price operation hands `res` to its caller: to the user of the service, or
\* to calculateTotalAssets at line 231, which goes on to line 290
PricesDone(m, caller, res) ==
    IF caller = "calculateTotalAssets"
    THEN IF res.kind = "error"
         THEN Done(m, res)
         ELSE Done([m EXCEPT !.prices = res.value.list],
                   Returned(Valuate(m.acct.balances, res.value.list)))
    ELSE Done(m, res)

\* getAllPrices, lines 155-165, up to its await
GetAllPrices(m, caller, time) ==
    IF Fresh(m.cache, AllPricesKey, time)
    THEN PricesDone(m, caller, Returned(m.cache[AllPricesKey].data))
    ELSE [m EXCEPT !.pc = "snapshot", !.http = Append(@, AllPricesRequest)]

\* getAllPrices, lines 166-175: the snapshot request settles.  An error is
\* rethrown by getAllPrices and, in the fallback, by getSymbolPrices too.
SnapshotSettled(m, caller, time, ok, ticker) ==
    IF ok
    THEN PricesDone([m EXCEPT !.cache = CacheSet(@, AllPricesKey, Prices(ticker), time),
                              !.writer = "getAllPrices"],
                    caller, Returned(Prices(ticker)))
    ELSE PricesDone(m, caller, Threw("Request failed"))

\* getSymbolPrices, lines 178-192, up to its first await
GetSymbolPrices(m, caller, time, symbols) ==
    IF Len(symbols) = 0
    THEN PricesDone(m, caller, Returned(Prices(<<>>)))
    ELSE LET sorted == SortSymbols(symbols)
             cacheKey == Join(sorted, Comma)
         IN  IF Fresh(m.cache, cacheKey, time)
             THEN PricesDone(m, caller, Returned(m.cache[cacheKey].data))
             ELSE [m EXCEPT !.pc = "symbol",
                            !.sp = [symbols |-> sorted, key |-> cacheKey,
                                    idx |-> 1, prices |-> <<>>],
                            !.http = Append(@, SymbolRequest(sorted[1]))]

\* how the request for one symbol settled
Answer(symbol, ok, quote) == [symbol |-> symbol, ok |-> ok, quote |-> quote]

\* getSymbolPrices without the inner try: the failure of one symbol ends the
\* call
SymbolSettledFailingFast(m, caller, time, ok, quote) ==
    LET batch == IF ok THEN Append(m.sp.prices, quote) ELSE m.sp.prices
        m1 == [m EXCEPT !.sp.prices = batch,
                        !.answers = Append(@, Answer(m.sp.symbols[m.sp.idx], ok, quote))]
    IN  IF ~ok
        THEN PricesDone(m1, caller, Threw("Request failed"))
        ELSE IF m.sp.idx < Len(m.sp.symbols)
        THEN [m1 EXCEPT !.sp.idx = @ + 1,
                        !.http = Append(@, SymbolRequest(m.sp.symbols[m.sp.idx + 1]))]
        ELSE PricesDone([m1 EXCEPT !.cache = CacheSet(@, m.sp.key, Prices(batch), time),
                                   !.writer = "getSymbolPrices"],
                        caller, Returned(Prices(batch)))

\* getSymbolPrices returning the empty batch instead of falling back
SymbolSettledWithoutFallback(m, caller, time, ok, quote) ==
    LET batch == IF ok THEN Append(m.sp.prices, quote) ELSE m.sp.prices
        m1 == [m EXCEPT !.sp.prices = batch,
                        !.answers = Append(@, Answer(m.sp.symbols[m.sp.idx], ok, quote))]
    IN  IF m.sp.idx < Len(m.sp.symbols)
        THEN [m1 EXCEPT !.sp.idx = @ + 1,
                        !.http = Append(@, SymbolRequest(m.sp.symbols[m.sp.idx + 1]))]
        ELSE IF Len(batch) > 0
        THEN PricesDone([m1 EXCEPT !.cache = CacheSet(@, m.sp.key, Prices(batch), time),
                                   !.writer = "getSymbolPrices"],
                        caller, Returned(Prices(batch)))
        ELSE PricesDone(m1, caller, Returned(Prices(<<>>)))

\* getSymbolPrices, lines 192-207: the request for symbols[idx] settles
SymbolSettled(m, caller, time, ok, quote) ==
    LET prices == IF ok THEN Append(m.sp.prices, quote) ELSE m.sp.prices
        m1 == [m EXCEPT !.sp.prices = prices,
                        !.answers = Append(@, Answer(m.sp.symbols[m.sp.idx], ok, quote))]
    IN  IF m.sp.idx < Len(m.sp.symbols)
        THEN [m1 EXCEPT !.sp.idx = @ + 1,
                        !.http = Append(@, SymbolRequest(m.sp.symbols[m.sp.idx + 1]))]
        ELSE IF Len(prices) > 0
        THEN PricesDone([m1 EXCEPT !.cache = CacheSet(@, m.sp.key, Prices(prices), time),
                                   !.writer = "getSymbolPrices"],
                        caller, Returned(Prices(prices)))
        ELSE GetAllPrices(m1, caller, time)

\* makeRequest hands `res` to its caller: to the user of the service (through
\* getAccountInfo), or to calculateTotalAssets at line 217, which goes on to
\* line 231
RequestDone(m, caller, time, res) ==
    IF caller = "calculateTotalAssets"
    THEN IF res.kind = "error"
         THEN Done(m, res)
         ELSE IF res.value.type = "undefined"
         THEN Done(m, Threw("TypeError: Cannot read properties of undefined (reading 'balances')"))
         ELSE LET held == HeldAssets(res.value.balances)
                  m1 == [m EXCEPT !.acct = res.value]
              IN  IF Len(held) > 0 /\ Len(held) < SnapshotThreshold
                  THEN GetSymbolPrices(m1, caller, time, PairsToFetch(held))
                  ELSE GetAllPrices(m1, caller, time)
    ELSE Done(m, res)

-----------------------------------------------------------------------------
(* History kept for the properties: what was stored and returned when *)

NoEvent == [some |-> FALSE, at |-> 0, payload |-> Undefined, by |-> NoCall]
Event(time, payload, o) == [some |-> TRUE, at |-> time, payload |-> payload, by |-> o]

Lookup(history, key) == IF key \in DOMAIN history THEN history[key] ELSE NoEvent

AllPricesCall == [name |-> "getAllPrices", args |-> <<>>]

IsPriceCall(o) == o.name \in {"getAllPrices", "getSymbolPrices"}

\* the cache key a price call reads
Fingerprint(o) == IF o.name = "getAllPrices" THEN AllPricesKey ELSE SymbolsKey(o.args)

NoPrev == [at |-> 0, returned |-> NoEvent, stored |-> NoEvent, stores |-> EmptyCache]

-----------------------------------------------------------------------------
(* From the variables to the machine of a task and back *)

Machine(t) ==
    [pc |-> pc[t], result |-> result[t], sp |-> sp[t], http |-> http[t],
     acct |-> acct[t], prices |-> fetched[t], answers |-> answers[t],
     cache |-> priceCache, writer |-> ""]

\* task t, serving call o, has run to machine m
Commit(t, m, o) ==
    /\ pc' = [pc EXCEPT ![t] = m.pc]
    /\ result' = [result EXCEPT ![t] = m.result]
    /\ sp' = [sp EXCEPT ![t] = m.sp]
    /\ http' = [http EXCEPT ![t] = m.http]
    /\ acct' = [acct EXCEPT ![t] = m.acct]
    /\ fetched' = [fetched EXCEPT ![t] = m.prices]
    /\ answers' = [answers EXCEPT ![t] = m.answers]
    /\ priceCache' = m.cache
    /\ stores' = [k \in DOMAIN m.cache |->
                    IF k \in DOMAIN priceCache /\ priceCache[k] = m.cache[k]
                    THEN stores[k]
                    ELSE Event(m.cache[k].timestamp, m.cache[k].data,
                               IF m.writer = "getAllPrices" THEN AllPricesCall ELSE o)]
    /\ returned' = IF m.pc = "done" /\ IsPriceCall(o) /\ m.result.kind = "value"
                   THEN Event(now, m.result.value, o)
                   ELSE returned

-----------------------------------------------------------------------------
(* makeRequest: the actions *)

NoFrame == [retries |-> 0, attempt |-> 0, config |-> NoConfig, sentAt |-> 0, waitUntil |-> 0]

\* the loop test with one pass too many
LoopContinuesOnceMore(attempt, retries) == attempt <= retries + 1

\* line 97: the test of the for loop
LoopContinues(attempt, retries) == attempt <= retries

\* longest time a call with `retries` attempts can take in the model
RECURSIVE LongestBackoff(_)
LongestBackoff(k) == IF k = 0 THEN 0 ELSE k * 3000 + LongestBackoff(k - 1)
Budget(retries) == retries * MaxLatency + LongestBackoff(retries - 1) + retries * 2000

RequestArgs ==
    { [endpoint |-> "/api/v3/account", params |-> <<>>, method |-> "GET", retries |-> n] :
        n \in 1..MaxRetries }
    \cup
    { [endpoint |-> "/api/v3/order", params |-> <<<<"symbol", "BTCUSDT">>, <<"side", "BUY">>>>,
       method |-> "POST", retries |-> n] : n \in 1..MaxRetries }

\* getAccountInfo: makeRequest('/api/v3/account') with the default arguments
AccountArgs == [endpoint |-> "/api/v3/account", params |-> <<>>, method |-> "GET", retries |-> 3]

\* lines 56-100: the credential check, the request built once, and the loop
\* up to its first await of axios(config)
EnterMakeRequest(t, o) ==
    IF MissingCredentials
    THEN /\ Commit(t, RequestDone(Machine(t), o.name, now,
                      Threw("Missing BINANCE_API_KEY or BINANCE_SECRET_KEY environment variables")), o)
         /\ UNCHANGED reqVars
    ELSE IF ~LoopContinues(1, o.args.retries)
    THEN /\ Commit(t, RequestDone(Machine(t), o.name, now, Returned(Undefined)), o)
         /\ UNCHANGED reqVars
    ELSE LET config == BuildConfig(o.args.endpoint, o.args.params, o.args.method, now)
         IN  /\ mr' = [mr EXCEPT ![t] = [retries |-> o.args.retries, attempt |-> 1,
                                          config |-> config, sentAt |-> now,
                                          waitUntil |-> 0]]
             /\ sent' = [sent EXCEPT ![t] = <<[attempt |-> 1, at |-> now, config |-> config]>>]
             /\ UNCHANGED <<waits, got>>
             /\ Commit(t, [Machine(t) EXCEPT !.pc = "request"], o)

\* a signed call o is issued on the idle task t
CallSigned(t, o) ==
    /\ pc[t] = "idle"
    /\ calls < MaxCalls
    /\ now + Budget(o.args.retries) <= MaxRequestTime
    /\ calls' = calls + 1
    /\ op' = [op EXCEPT ![t] = o]
    /\ prev' = [prev EXCEPT ![t] = [NoPrev EXCEPT !.at = now]]
    /\ EnterMakeRequest(t, o)
    /\ UNCHANGED envVars

CallMakeRequest(t, a) == CallSigned(t, [name |-> "makeRequest", args |-> a])

CallGetAccountInfo(t) == CallSigned(t, [name |-> "getAccountInfo", args |-> AccountArgs])

CallCalculateTotalAssets(t) ==
    CallSigned(t, [name |-> "calculateTotalAssets", args |-> AccountArgs])

\* lines 100-147: axios(config) settles with outcome o
Response(t, o) ==
    /\ pc[t] = "request"
    /\ got' = [got EXCEPT ![t] = Append(@, o)]
    /\ LET step == HandleAttempt(mr[t].attempt, mr[t].retries, o, AccountInfo(wallet))
       IN  IF step.next = "wait"
           THEN /\ mr' = [mr EXCEPT ![t].waitUntil = now + step.ms]
                /\ waits' = [waits EXCEPT ![t] =
                                Append(@, [after |-> mr[t].attempt, ms |-> step.ms, from |-> now])]
                /\ UNCHANGED sent
                /\ Commit(t, [Machine(t) EXCEPT !.pc = "backoff"], op[t])
           ELSE /\ UNCHANGED <<mr, sent, waits>>
                /\ Commit(t, RequestDone(Machine(t), op[t].name, now,
                                IF step.next = "return"
                                THEN Returned(step.value) ELSE Threw(step.error)), op[t])
    /\ UNCHANGED <<envVars, op, calls, prev>>

\* lines 107-108 (and 119, 127, 139): the timer fires, `continue`, attempt++,
\* the loop test, and either the next axios(config) or the end of the function
BackoffElapsed(t) ==
    /\ pc[t] = "backoff"
    /\ now >= mr[t].waitUntil
    /\ IF LoopContinues(mr[t].attempt + 1, mr[t].retries)
       THEN /\ mr' = [mr EXCEPT ![t].attempt = @ + 1, ![t].sentAt = now]
            /\ sent' = [sent EXCEPT ![t] =
                            Append(@, [attempt |-> mr[t].attempt + 1, at |-> now,
                                       config |-> mr[t].config])]
            /\ UNCHANGED <<waits, got>>
            /\ Commit(t, [Machine(t) EXCEPT !.pc = "request"], op[t])
       ELSE \* the for loop ends and the function falls off its end
            /\ UNCHANGED reqVars
            /\ Commit(t, RequestDone(Machine(t), op[t].name, now, Returned(Undefined)), op[t])
    /\ UNCHANGED <<envVars, op, calls, prev>>

-----------------------------------------------------------------------------
(* The price operations: the actions *)

\* the PriceData the exchange answers for one symbol: the quote it lists
Listed(symbol) == \E i \in 1..Len(market) : market[i].symbol = symbol
QuoteOf(symbol) == market[CHOOSE i \in 1..Len(market) : market[i].symbol = symbol]

\* the tasks are interchangeable: a call takes the first idle one
FirstIdle(t) == pc[t] = "idle" /\ \A u \in Tasks : pc[u] = "idle" => (u = t \/ t = "t1")

CallPrices(t, o) ==
    /\ FirstIdle(t)
    /\ calls < MaxCalls
    /\ calls' = calls + 1
    /\ op' = [op EXCEPT ![t] = o]
    /\ prev' = [prev EXCEPT ![t] = [at |-> now,
                                   returned |-> IF returned.by = o THEN returned ELSE NoEvent,
                                   stored |-> Lookup(stores, Fingerprint(o)),
                                   stores |-> stores]]
    /\ UNCHANGED <<envVars, reqVars>>

CallGetAllPrices(t) ==
    LET o == AllPricesCall
    IN  /\ CallPrices(t, o)
        /\ Commit(t, GetAllPrices(Machine(t), o.name, now), o)

CallGetSymbolPrices(t, symbols) ==
    LET o == [name |-> "getSymbolPrices", args |-> symbols]
    IN  /\ CallPrices(t, o)
        /\ Commit(t, GetSymbolPrices(Machine(t), o.name, now, symbols), o)

\* GET /api/v3/ticker/price settles: with the ticker, or with an error
SnapshotResponse(t, ok) ==
    /\ pc[t] = "snapshot"
    /\ Commit(t, SnapshotSettled(Machine(t), op[t].name, now, ok, market), op[t])
    /\ UNCHANGED <<envVars, op, calls, prev, reqVars>>

\* GET /api/v3/ticker/price?symbol=S settles: with the quote of a listed
\* symbol, or with an error (an unlisted symbol, or a failed request)
SymbolResponse(t, ok) ==
    /\ pc[t] = "symbol"
    /\ LET symbol == sp[t].symbols[sp[t].idx]
       IN  /\ ok => Listed(symbol)
           /\ Commit(t, SymbolSettled(Machine(t), op[t].name, now, ok,
                                      IF ok THEN QuoteOf(symbol) ELSE <<>>), op[t])
    /\ UNCHANGED <<envVars, op, calls, prev, reqVars>>

-----------------------------------------------------------------------------
(* The environment *)

\* the caller has consumed the outcome of the call; the task is free again
Finish(t) ==
    /\ pc[t] = "done"
    /\ pc' = [pc EXCEPT ![t] = "idle"]
    /\ op' = [op EXCEPT ![t] = NoCall]
    /\ result' = [result EXCEPT ![t] = NoResult]
    /\ mr' = [mr EXCEPT ![t] = NoFrame]
    /\ sent' = [sent EXCEPT ![t] = <<>>]
    /\ waits' = [waits EXCEPT ![t] = <<>>]
    /\ got' = [got EXCEPT ![t] = <<>>]
    /\ sp' = [sp EXCEPT ![t] = NoSymbols]
    /\ http' = [http EXCEPT ![t] = <<>>]
    /\ acct' = [acct EXCEPT ![t] = AccountInfo(<<>>)]
    /\ fetched' = [fetched EXCEPT ![t] = <<>>]
    /\ answers' = [answers EXCEPT ![t] = <<>>]
    /\ prev' = [prev EXCEPT ![t] = NoPrev]
    /\ UNCHANGED <<envVars, calls, priceCache, stores, returned>>

\* the exchange's quotes change
MarketMove ==
    /\ market' \in PriceMarkets \ {market}
    /\ UNCHANGED <<apiKey, apiSecret, now, wallet, ctlVars, reqVars, priceVars, histVars>>

Pending(t) == pc[t] \in {"request", "backoff", "snapshot", "symbol"}

\* time passes; a due timer fires before the clock moves past it, and a
\* pending signed request settles within MaxLatency
Tick(d, horizon) ==
    /\ now + d <= horizon
    /\ \A t \in Tasks :
          /\ pc[t] = "backoff" => now + d <= mr[t].waitUntil
          /\ pc[t] = "request" => now + d <= mr[t].sentAt + MaxLatency
    /\ now' = now + d
    /\ UNCHANGED <<apiKey, apiSecret, wallet, market, ctlVars, reqVars, priceVars, histVars>>

-----------------------------------------------------------------------------
(* Specifications *)

Init ==
    /\ apiKey \in Credentials
    /\ apiSecret \in Credentials
    /\ now = 0
    /\ wallet \in Wallets
    /\ market \in Markets
    /\ pc = [t \in Tasks |-> "idle"]
    /\ op = [t \in Tasks |-> NoCall]
    /\ result = [t \in Tasks |-> NoResult]
    /\ calls = 0
    /\ mr = [t \in Tasks |-> NoFrame]
    /\ sent = [t \in Tasks |-> <<>>]
    /\ waits = [t \in Tasks |-> <<>>]
    /\ got = [t \in Tasks |-> <<>>]
    /\ priceCache = EmptyCache
    /\ sp = [t \in Tasks |-> NoSymbols]
    /\ http = [t \in Tasks |-> <<>>]
    /\ acct = [t \in Tasks |-> AccountInfo(<<>>)]
    /\ fetched = [t \in Tasks |-> <<>>]
    /\ answers = [t \in Tasks |-> <<>>]
    /\ stores = EmptyCache
    /\ returned = NoEvent
    /\ prev = [t \in Tasks |-> NoPrev]

RequestTasks == {"t1"}

\* the clock of the signed operations, read while a call is in progress
TickRequest == (\E t \in Tasks : Pending(t)) /\ Tick(1000, MaxRequestTime)

\* makeRequest alone, with every argument
InitRequest == Init /\ wallet = MainWallet /\ market = BridgeMarket

NextRequest ==
    \/ \E t \in RequestTasks, a \in RequestArgs : CallMakeRequest(t, a)
    \/ \E t \in RequestTasks, o \in Outcomes : Response(t, o)
    \/ \E t \in RequestTasks : BackoffElapsed(t)
    \/ \E t \in RequestTasks : Finish(t)
    \/ TickRequest

SpecRequest == InitRequest /\ [][NextRequest]_vars

\* every pending response arrives, every timer fires, the clock runs
FairSpecRequest ==
    /\ SpecRequest
    /\ \A t \in RequestTasks :
          /\ WF_vars(\E o \in Outcomes : Response(t, o))
          /\ WF_vars(BackoffElapsed(t))
    /\ WF_vars(TickRequest)

\* the price operations, called by overlapping tasks while the market moves
TickPrices == Tick(500, MaxPriceTime)

\* XYZUSDT is listed in neither market of this specification
SymbolLists ==
    { <<>>, <<XYZ \o USDT, ETH \o USDT>>, <<ETH \o USDT, XYZ \o USDT>> }

InitPrices ==
    Init /\ wallet = <<>> /\ apiKey = "k" /\ apiSecret = "k" /\ market \in PriceMarkets

NextPrices ==
    \/ \E t \in Tasks : CallGetAllPrices(t)
    \/ \E t \in Tasks, symbols \in SymbolLists : CallGetSymbolPrices(t, symbols)
    \/ \E t \in Tasks, ok \in BOOLEAN : SnapshotResponse(t, ok)
    \/ \E t \in Tasks, ok \in BOOLEAN : SymbolResponse(t, ok)
    \/ \E t \in Tasks : Finish(t)
    \/ MarketMove
    \/ TickPrices

SpecPrices == InitPrices /\ [][NextPrices]_vars

\* the price operations called with symbols that hold a comma or spell the
\* key of getAllPrices: getSymbolPrices takes any string[], and POST
\* /api/token-prices passes on any token with USDT appended
FingerprintTasks == {"t1"}

FingerprintLists ==
    { <<ETH \o USDT, XYZ \o USDT>>,
      <<ETH \o USDT \o Comma \o XYZ \o USDT>>,
      <<AllPricesKey>> }

NextFingerprints ==
    \/ \E t \in FingerprintTasks : CallGetAllPrices(t)
    \/ \E t \in FingerprintTasks, symbols \in FingerprintLists : CallGetSymbolPrices(t, symbols)
    \/ \E t \in FingerprintTasks, ok \in BOOLEAN : SnapshotResponse(t, ok)
    \/ \E t \in FingerprintTasks, ok \in BOOLEAN : SymbolResponse(t, ok)
    \/ \E t \in FingerprintTasks : Finish(t)
    \/ TickPrices

SpecFingerprints == InitPrices /\ [][NextFingerprints]_vars

\* the signed operations of the public interface
PortfolioTasks == {"t1"}

\* the answers of GET /api/v3/account tried here
AccountOutcomes == { o \in Outcomes : o.kind = "response" /\ o.status \in {200, 400, 429} }

NextPortfolio ==
    \/ \E t \in PortfolioTasks : CallGetAccountInfo(t)
    \/ \E t \in PortfolioTasks : CallCalculateTotalAssets(t)
    \/ \E t \in PortfolioTasks, o \in AccountOutcomes : Response(t, o)
    \/ \E t \in PortfolioTasks : BackoffElapsed(t)
    \/ \E t \in PortfolioTasks, ok \in BOOLEAN : SnapshotResponse(t, ok)
    \/ \E t \in PortfolioTasks, ok \in BOOLEAN : SymbolResponse(t, ok)
    \/ \E t \in PortfolioTasks : Finish(t)
    \/ TickRequest

SpecPortfolio == Init /\ [][NextPortfolio]_vars

-----------------------------------------------------------------------------
(* Properties *)

IsRateLimited(o) == o.kind = "response" /\ o.status = 429

AllRateLimited(t) ==
    /\ Len(got[t]) > 0
    /\ \A k \in 1..Len(got[t]) : IsRateLimited(got[t][k])

\* C1: a call of makeRequest whose every attempt, all `retries` of them, was
\* answered 429 ends by throwing; it never returns a value.
C1_RateLimitExhaustionRaises ==
    \A t \in Tasks :
        (/\ pc[t] = "done"
         /\ op[t].name = "makeRequest"
         /\ AllRateLimited(t)
         /\ Len(got[t]) = op[t].args.retries)
        => result[t].kind = "error"

\* C2: a call of makeRequest with retries = N issues at most N attempts, issues
\* exactly N when every attempt was answered 429, and always ends.
C2_AtMostNAttemptsAndTermination ==
    /\ [](\A t \in Tasks :
            /\ op[t].name = "makeRequest" => Len(sent[t]) <= op[t].args.retries
            /\ (pc[t] = "done" /\ op[t].name = "makeRequest" /\ AllRateLimited(t))
                  => Len(sent[t]) = op[t].args.retries)
    /\ \A t \in Tasks : (pc[t] \in {"request", "backoff"}) ~> (pc[t] = "done")

\* C2, witness: a call with retries = 3 has ended after three attempts, each
\* answered 429
C2_Witness ==
    \E t \in Tasks :
        /\ pc[t] = "done"
        /\ op[t].name = "makeRequest"
        /\ op[t].args.retries = 3
        /\ AllRateLimited(t)
        /\ Len(sent[t]) = 3

\* C3: every attempt after the first carries a timestamp captured after the
\* attempt before it was sent, and the signature of the string signed with
\* that timestamp.
C3_FreshTimestampPerAttempt ==
    \A t \in Tasks : \A k \in 2..Len(sent[t]) :
        /\ sent[t][k].config.timestamp > sent[t][k - 1].at
        /\ sent[t][k].config.signature =
               HmacSha256Hex(apiSecret,
                   FinalQueryString(op[t].args.params, sent[t][k].config.timestamp))

\* C4: with the key or the secret missing, no signed operation issues an
\* attempt, waits, issues a price request or touches the cache, and each
\* ends at once with the configuration error.
C4_MissingCredentialsFailFast ==
    (apiKey = "" \/ apiSecret = "") =>
        /\ priceCache = EmptyCache
        /\ \A t \in Tasks :
             /\ sent[t] = <<>>
             /\ waits[t] = <<>>
             /\ http[t] = <<>>
             /\ pc[t] \in {"idle", "done"}
             /\ pc[t] = "done" =>
                  result[t] = Threw("Missing BINANCE_API_KEY or BINANCE_SECRET_KEY environment variables")

\* C4, witness: calculateTotalAssets has failed with the secret missing
C4_Witness ==
    /\ apiKey # ""
    /\ apiSecret = ""
    /\ \E t \in Tasks :
         /\ pc[t] = "done"
         /\ op[t].name = "calculateTotalAssets"
         /\ result[t].kind = "error"

IsErrorStatus(o) == o.kind = "response" /\ o.status >= 400 /\ o.status # 429

\* C5: an attempt answered with a status >= 400 other than 429 is the last
\* one: the call has failed right then, with no further attempt and no wait
\* after it.
C5_ErrorStatusFailsAtOnce ==
    \A t \in Tasks : \A k \in 1..Len(got[t]) :
        IsErrorStatus(got[t][k]) =>
            /\ k = Len(got[t])
            /\ Len(sent[t]) = k
            /\ Len(waits[t]) = k - 1
            /\ pc[t] = "done"
            /\ result[t].kind = "error"

\* C5, witness: the second of three attempts was answered 503, and the call
\* has failed
C5_Witness ==
    \E t \in Tasks :
        /\ op[t].name = "makeRequest"
        /\ op[t].args.retries = 3
        /\ Len(got[t]) = 2
        /\ got[t][2].status = 503
        /\ pc[t] = "done"

IsRepeatable(t) ==
    /\ pc[t] = "done"
    /\ IsPriceCall(op[t])
    /\ op[t].name = "getSymbolPrices" => op[t].args # <<>>

\* C6: a price call issued less than 1000 ms after the same call returned
\* prices, however that call got them, returns the same payload and issues no
\* request; one issued more than 1000 ms after issues a request.  (The history
\* holds the latest return: the two calls are the same call twice in a row.)
C6_RepeatOfAnyReturnIsCached ==
    \A t \in Tasks :
        (IsRepeatable(t) /\ prev[t].returned.some) =>
            /\ prev[t].at - prev[t].returned.at < 1000 =>
                 /\ result[t] = Returned(prev[t].returned.payload)
                 /\ http[t] = <<>>
            /\ prev[t].at - prev[t].returned.at > 1000 => http[t] # <<>>

\* C6 as amended: a price call issued less than 1000 ms after the latest store
\* under its fingerprint returns the payload stored and issues no request; one
\* issued more than 1000 ms after that store issues a request.
C6_RepeatOfStoreIsCached ==
    \A t \in Tasks :
        (IsRepeatable(t) /\ prev[t].stored.some) =>
            /\ prev[t].at - prev[t].stored.at < 1000 =>
                 /\ result[t] = Returned(prev[t].stored.payload)
                 /\ http[t] = <<>>
            /\ prev[t].at - prev[t].stored.at > 1000 => http[t] # <<>>

\* C6, witness: getSymbolPrices, issued 500 ms after a store under its
\* fingerprint, was served the stored payload
C6_Witness ==
    \E t \in Tasks :
        /\ IsRepeatable(t)
        /\ op[t].name = "getSymbolPrices"
        /\ prev[t].stored.some
        /\ prev[t].at - prev[t].stored.at = 500
        /\ result[t] = Returned(prev[t].stored.payload)
        /\ http[t] = <<>>

\* the lists a and b hold the same symbols the same number of times
IsPermutation(a, b) ==
    /\ Len(a) = Len(b)
    /\ \A x \in {a[i] : i \in 1..Len(a)} \cup {b[i] : i \in 1..Len(b)} :
          Cardinality({i \in 1..Len(a) : a[i] = x}) = Cardinality({i \in 1..Len(b) : b[i] = x})

\* the stores, as they were when the call of t was issued, made less than
\* 1000 ms before by a getSymbolPrices call for a permutation of its list
FreshPermutedStores(t) ==
    { k \in DOMAIN prev[t].stores :
        /\ prev[t].stores[k].by.name = "getSymbolPrices"
        /\ IsPermutation(prev[t].stores[k].by.args, op[t].args)
        /\ prev[t].at - prev[t].stores[k].at < 1000 }

\* C7: a getSymbolPrices call issued within the TTL of an entry that a call
\* for any permutation of its list stored is served that entry, without a
\* request.
C7_PermutationsShareTheEntry ==
    \A t \in Tasks :
        (pc[t] = "done" /\ op[t].name = "getSymbolPrices") =>
            \A k \in FreshPermutedStores(t) :
                /\ result[t] = Returned(prev[t].stores[k].payload)
                /\ http[t] = <<>>

\* C7, witness: a call was served the entry stored by a call for the same
\* symbols in another order
C7_Witness ==
    \E t \in Tasks :
        /\ pc[t] = "done"
        /\ op[t].name = "getSymbolPrices"
        /\ \E k \in FreshPermutedStores(t) :
             /\ prev[t].stores[k].by.args # op[t].args
             /\ result[t] = Returned(prev[t].stores[k].payload)

\* the call of t is a getSymbolPrices call that missed the cache and whose
\* requests, one per symbol, have all failed
EmptyBatch(t) ==
    /\ op[t].name = "getSymbolPrices"
    /\ sp[t].symbols # <<>>
    /\ sp[t].idx = Len(sp[t].symbols)
    /\ sp[t].prices = <<>>

\* C8: a getSymbolPrices call that ends with an empty batch returns the full
\* snapshot, the one getAllPrices serves at that moment; it throws only when
\* the snapshot request it was waiting for failed.
C8_EmptyBatchFallsBack ==
    [][\A t \in Tasks :
          (pc[t] # "done" /\ pc'[t] = "done" /\ EmptyBatch(t)')
          => /\ result'[t].kind = "value" =>
                  /\ AllPricesKey \in DOMAIN priceCache'
                  /\ result'[t].value = priceCache'[AllPricesKey].data
                  /\ now - priceCache'[AllPricesKey].timestamp < 1000
             /\ result'[t].kind = "error" => pc[t] = "snapshot"
             /\ result'[t].kind # "none"]_vars

\* C8, witness: a call with an empty batch has returned a snapshot that is not
\* empty
C8_Witness ==
    \E t \in Tasks :
        /\ pc[t] = "done"
        /\ EmptyBatch(t)
        /\ result[t].kind = "value"
        /\ result[t].value.list # <<>>

\* the price the bridge gives balance b on the market
BridgePrice(b) ==
    Times(parseFloat(QuoteOf(b.asset \o BTC).price), parseFloat(QuoteOf(BTC \o USDT).price))

\* balance b is held, has no USDT quote on the market, and both bridge quotes
Bridged(b) ==
    /\ Total(b) > 0
    /\ b.asset # USDT
    /\ ~Listed(b.asset \o USDT)
    /\ Listed(b.asset \o BTC)
    /\ Listed(BTC \o USDT)

Valued(t) ==
    /\ pc[t] = "done"
    /\ op[t].name = "calculateTotalAssets"
    /\ result[t].kind = "value"

\* C9: in every valuation, a held asset without a USDT quote whose BTC pair
\* and BTCUSDT are quoted is priced at their product and valued at total
\* times that price (and listed with them when the value is material).
C9_BridgePricingOnEveryPath ==
    \A t \in Tasks :
        Valued(t) =>
            \A i \in 1..Len(acct[t].balances) :
                LET b == acct[t].balances[i]
                IN  (Bridged(b) /\ Greater(Times(Total(b), BridgePrice(b)), MaterialityThreshold))
                    => \E j \in 1..Len(result[t].value.assets) :
                          /\ result[t].value.assets[j].asset = b.asset
                          /\ result[t].value.assets[j].currentPrice = BridgePrice(b)
                          /\ result[t].value.assets[j].usdtValue = Times(Total(b), BridgePrice(b))

\* balance b, valued against the prices the valuation of t was given, is worth
\* more than 0.01
IsMaterial(t, b) ==
    /\ Total(b) > 0
    /\ Greater(Resolve(b, fetched[t]).usdtValue, MaterialityThreshold)

\* C10: the assets of a valuation are exactly the balances worth more than
\* 0.01: each listed asset has a positive total, a price and a value above
\* 0.01, and each balance worth more than 0.01 is listed, once.
C10_OutputIsTheMaterialAssets ==
    \A t \in Tasks :
        Valued(t) =>
            LET out == result[t].value.assets
                bal == acct[t].balances
            IN  /\ \A j \in 1..Len(out) :
                     /\ out[j].total > 0
                     /\ out[j].currentPrice # Null
                     /\ out[j].usdtValue > MaterialityThreshold
                /\ \A i \in 1..Len(bal) :
                     IsMaterial(t, bal[i]) <=>
                        \E j \in 1..Len(out) :
                            /\ out[j].asset = bal[i].asset
                            /\ out[j].usdtValue = Resolve(bal[i], fetched[t]).usdtValue
                /\ Len(out) = Cardinality({i \in 1..Len(bal) : IsMaterial(t, bal[i])})

\* C10, witness: a valuation lists one asset and omits a held asset whose
\* price resolved to a value of 0.01 or less
C10_Witness ==
    \E t \in Tasks :
        /\ Valued(t)
        /\ Len(result[t].value.assets) > 0
        /\ \E i \in 1..Len(acct[t].balances) :
             LET b == acct[t].balances[i]
             IN  /\ Total(b) > 0
                 /\ Resolve(b, fetched[t]).currentPrice # Null
                 /\ ~IsMaterial(t, b)

\* the sum of the values of the assets from position i on
RECURSIVE ValueFrom(_, _)
ValueFrom(assets, i) ==
    IF i > Len(assets) THEN 0 ELSE assets[i].usdtValue + ValueFrom(assets, i + 1)

\* C11: the assets of a valuation are in non-increasing order of value, and
\* totalUSDT is the sum of the values of the assets listed.
C11_SortedAndSummed ==
    \A t \in Tasks :
        Valued(t) =>
            LET out == result[t].value.assets
            IN  /\ \A j \in 1..(Len(out) - 1) : out[j].usdtValue >= out[j + 1].usdtValue
                /\ result[t].value.totalUSDT = ValueFrom(out, 1)

\* C11, witness: a valuation lists two assets of different values, the one
\* that comes first in the balances second
C11_Witness ==
    \E t \in Tasks :
        /\ Valued(t)
        /\ Len(result[t].value.assets) = 2
        /\ result[t].value.assets[1].usdtValue > result[t].value.assets[2].usdtValue
        /\ acct[t].balances[1].asset = result[t].value.assets[2].asset
        /\ result[t].value.totalUSDT > 0

\* key=value of each parameter, in order, each followed by `sep`
RECURSIVE PairsEach(_, _)
PairsEach(params, sep) ==
    IF Len(params) = 0 THEN ""
    ELSE params[1][1] \o "=" \o params[1][2] \o sep \o PairsEach(Tail(params), sep)

\* what attempt a transmits: the query of its url (GET) or its body
Transmitted(a, endpoint, signed) ==
    /\ a.config.signed = signed
    /\ a.config.signature = HmacSha256Hex(apiSecret, signed)
    /\ LET full == signed \o "&signature=" \o HmacSha256Hex(apiSecret, signed)
       IN  IF a.config.method = "GET"
           THEN a.config.url = endpoint \o "?" \o full
           ELSE a.config.url = endpoint /\ a.config.data = full

\* C12: every attempt of makeRequest, with or without parameters, signs
\* parameters & "&timestamp=" & timestamp, the parameters being the key=value
\* pairs joined by "&", and transmits that string followed by &signature=sig.
C12_SignsParametersAmpTimestamp ==
    \A t \in Tasks : \A k \in 1..Len(sent[t]) :
        LET params == op[t].args.params
            joined == IF Len(params) = 0 THEN ""
                      ELSE PairsEach(SubSeq(params, 1, Len(params) - 1), "&")
                               \o PairsEach(<<params[Len(params)]>>, "")
        IN  Transmitted(sent[t][k], op[t].args.endpoint,
                joined \o "&timestamp=" \o ToString(sent[t][k].config.timestamp))

\* C12 as amended: every attempt signs the parameters, each followed by "&",
\* and then timestamp=T (with no parameters: timestamp=T alone, without a
\* leading "&"), and transmits that string followed by &signature=sig.
C12_SignsParametersThenTimestamp ==
    \A t \in Tasks : \A k \in 1..Len(sent[t]) :
        Transmitted(sent[t][k], op[t].args.endpoint,
            PairsEach(op[t].args.params, "&")
                \o "timestamp=" \o ToString(sent[t][k].config.timestamp))

\* C12, witness: a request without parameters, built at time 1000, was sent
\* with timestamp=1000 signed
C12_Witness ==
    \E t \in Tasks :
        /\ op[t].name = "makeRequest"
        /\ op[t].args.params = <<>>
        /\ Len(sent[t]) > 0
        /\ sent[t][1].config.url =
               "/api/v3/account?timestamp=1000&signature=hmac(k,timestamp=1000)"

\* the call of t has used up its attempts, the last one failing in a class
\* that is retried
Exhausted(t) ==
    /\ pc[t] = "done"
    /\ op[t].name = "makeRequest"
    /\ Len(got[t]) = op[t].args.retries
    /\ \/ IsRateLimited(got[t][Len(got[t])])
       \/ got[t][Len(got[t])].kind \in {"network", "noresponse"}

NetworkExhaustedErrors == { "Network Error: " \o c : c \in NetworkCodes }
NoResponseExhaustedErrors ==
    { "Network Error: No response from server after " \o ToString(n) \o " attempts" :
        n \in 1..MaxRetries }

\* the failure class a terminal result names
TerminalClass(r) ==
    IF r.kind # "error" THEN "none"
    ELSE IF r.error \in NetworkExhaustedErrors THEN "network"
    ELSE IF r.error \in NoResponseExhaustedErrors THEN "noresponse"
    ELSE "ratelimit"

\* C13: a call that has used up its attempts ends with an error that names
\* the class of the failure that exhausted them: rate limiting, a network
\* failure or no response, the three errors being different.
C13_TerminalErrorNamesTheClass ==
    \A t \in Tasks :
        Exhausted(t) =>
            LET last == got[t][Len(got[t])]
            IN  TerminalClass(result[t]) =
                    (IF IsRateLimited(last) THEN "ratelimit" ELSE last.kind)

\* the quotes of the requests of t that succeeded, in the order the requests
\* were issued
Succeeded(ans) ==
    LET good == SelectSeq(ans, LAMBDA a : a.ok)
    IN  [i \in 1..Len(good) |-> good[i].quote]

\* C14: when the last per-symbol request of a getSymbolPrices call settles
\* and some request of the call has succeeded, the call returns, it has
\* issued one request per symbol of its list, each answered once, it returns
\* the quotes of the requests that succeeded in the order they were issued,
\* and the cache holds that list under the sorted-symbol key.
C14_PartialBatchIsReturnedAndStored ==
    [][\A t \in Tasks :
          (/\ op[t].name = "getSymbolPrices"
           /\ pc[t] = "symbol"
           /\ pc'[t] # "symbol"
           /\ \E i \in 1..Len(answers'[t]) : answers'[t][i].ok)
          => /\ pc'[t] = "done"
             /\ result'[t] = Returned(Prices(Succeeded(answers'[t])))
             /\ IsPermutation([i \in 1..Len(http'[t]) |-> http'[t][i].symbol], op[t].args)
             /\ [i \in 1..Len(answers'[t]) |-> answers'[t][i].symbol]
                    = [i \in 1..Len(http'[t]) |-> http'[t][i].symbol]
             /\ SymbolsKey(op[t].args) \in DOMAIN priceCache'
             /\ priceCache'[SymbolsKey(op[t].args)]
                    = [data |-> Prices(Succeeded(answers'[t])), timestamp |-> now]]_vars

\* C14, witness: a call for two symbols, one request failing and the other
\* succeeding, has returned the one quote
C14_Witness ==
    \E t \in Tasks :
        /\ pc[t] = "done"
        /\ op[t].name = "getSymbolPrices"
        /\ Len(answers[t]) = 2
        /\ \E i, j \in 1..2 : answers[t][i].ok /\ ~answers[t][j].ok
        /\ result[t].kind = "value"
        /\ Len(result[t].value.list) = 1

\* outcome o of an attempt is of a class makeRequest retries
IsRetryable(o) == IsRateLimited(o) \/ o.kind \in {"network", "noresponse"}

\* C15: an attempt k before the last that fails in a retried class is
\* followed by a wait of k x 2000 ms (429, network failure) or k x 3000 ms (no
\* response), and attempt k + 1 is not sent before the wait has elapsed.
C15_BackoffGrowsWithTheAttempt ==
    \A t \in Tasks : \A k \in 1..Len(got[t]) :
        (op[t].name = "makeRequest" /\ k < op[t].args.retries /\ IsRetryable(got[t][k])) =>
            /\ Len(waits[t]) >= k
            /\ waits[t][k].after = k
            /\ waits[t][k].from >= sent[t][k].at
            /\ waits[t][k].ms = IF got[t][k].kind = "noresponse" THEN k * 3000 ELSE k * 2000
            /\ Len(sent[t]) > k =>
                   /\ sent[t][k + 1].attempt = k + 1
                   /\ sent[t][k + 1].at >= waits[t][k].from + waits[t][k].ms
            /\ Len(sent[t]) = k => pc[t] = "backoff"

\* C15, witness: the third attempt was sent after a 429 on the first and no
\* response to the second, 2000 ms and then 6000 ms of wait
C15_Witness ==
    \E t \in Tasks :
        /\ op[t].name = "makeRequest"
        /\ Len(sent[t]) = 3
        /\ IsRateLimited(got[t][1])
        /\ got[t][2].kind = "noresponse"
        /\ waits[t][1].ms = 2000
        /\ waits[t][2].ms = 6000
        /\ sent[t][3].at >= sent[t][1].at + 8000

\* the price, in hundredths, the list `prices` gives `symbol` last; the set
\* is empty when the list does not quote it
Quoted(prices, symbol) ==
    { parseFloat(prices[i].price) :
        i \in { i \in 1..Len(prices) :
                  /\ prices[i].symbol = symbol
                  /\ \A j \in 1..Len(prices) : prices[j].symbol = symbol => j <= i } }

\* the price (in 1/10^4) the priority rule gives asset a: 1 for USDT, else the
\* direct quote, else the product of the two bridge quotes, else none
RulePrice(a, prices) ==
    IF a = USDT THEN 10000
    ELSE IF Quoted(prices, a \o USDT) # {}
    THEN LET d == CHOOSE x \in Quoted(prices, a \o USDT) : TRUE
         IN  IF d = NaN THEN NaN ELSE 100 * d
    ELSE IF Quoted(prices, a \o BTC) # {} /\ Quoted(prices, BTC \o USDT) # {}
    THEN LET x == CHOOSE x \in Quoted(prices, a \o BTC) : TRUE
             y == CHOOSE y \in Quoted(prices, BTC \o USDT) : TRUE
         IN  IF x = NaN \/ y = NaN THEN NaN ELSE x * y
    ELSE Null

\* the value (in 1/10^6) of `total` at the rule's price
RuleValue(total, price) ==
    IF price = Null THEN 0 ELSE IF price = NaN THEN NaN ELSE total * price

\* C16: in every valuation each held asset is priced by the rule over the
\* prices the valuation was given: an asset the rule leaves without a price
\* is not listed, and an asset whose value by the rule exceeds 0.01 is
\* listed with the rule's price and value.
C16_PriceResolutionPriority ==
    \A t \in Tasks :
        Valued(t) =>
            \A i \in 1..Len(acct[t].balances) :
                LET b == acct[t].balances[i]
                    out == result[t].value.assets
                    price == RulePrice(b.asset, fetched[t])
                    value == RuleValue(Total(b), price)
                    listed == { j \in 1..Len(out) : out[j].asset = b.asset }
                IN  Total(b) > 0 =>
                      /\ Resolve(b, fetched[t]) = [currentPrice |-> price, usdtValue |-> value]
                      /\ price = Null => listed = {}
                      /\ \A j \in listed :
                            out[j].currentPrice = price /\ out[j].usdtValue = value
                      /\ (value # NaN /\ value > MaterialityThreshold) => listed # {}

\* C16, witness: a valuation given XYZUSDT, XYZBTC and BTCUSDT lists XYZ at
\* the direct price 2
C16_Witness ==
    \E t \in Tasks :
        /\ Valued(t)
        /\ Quoted(fetched[t], XYZ \o USDT) # {}
        /\ Quoted(fetched[t], XYZ \o BTC) # {}
        /\ Quoted(fetched[t], BTC \o USDT) # {}
        /\ \E j \in 1..Len(result[t].value.assets) :
              /\ result[t].value.assets[j].asset = XYZ
              /\ result[t].value.assets[j].currentPrice = 20000

\* the balances of the valuation of t with a positive total
HeldBalances(t) == SelectSeq(acct[t].balances, LAMBDA b : Total(b) > 0)

\* the USDT pair of every held asset other than USDT, in the order of the
\* balances
TargetedPairs(t) ==
    LET others == SelectSeq(HeldBalances(t), LAMBDA b : b.asset # USDT)
    IN  [i \in 1..Len(others) |-> others[i].asset \o USDT]

\* the symbols the valuation of t has requested one by one
SymbolsRequested(t) ==
    LET single == SelectSeq(http[t], LAMBDA r : r # AllPricesRequest)
    IN  [i \in 1..Len(single) |-> single[i].symbol]

\* C17: a valuation with 50 held assets or more issues no per-symbol request
\* (at most the one snapshot request); one with 1 to 49 held assets asks
\* getSymbolPrices for the USDT pair of each held asset other than USDT: once
\* it has its prices it has requested each of those pairs, or was served the
\* entry cached under their key.
C17_FetchPathByHeldCount ==
    \A t \in Tasks :
        (op[t].name = "calculateTotalAssets" /\ Len(HeldBalances(t)) > 0) =>
            IF Len(HeldBalances(t)) >= 50
            THEN /\ SymbolsRequested(t) = <<>>
                 /\ Len(http[t]) <= 1
                 /\ pc[t] # "symbol"
            ELSE /\ \A i \in 1..Len(SymbolsRequested(t)) :
                       /\ i <= Len(TargetedPairs(t))
                       /\ SymbolsRequested(t)[i] = SortSymbols(TargetedPairs(t))[i]
                 /\ pc[t] = "symbol" => SymbolsRequested(t) # <<>>
                 /\ pc[t] \in {"snapshot", "done"} =>
                       \/ IsPermutation(SymbolsRequested(t), TargetedPairs(t))
                       \/ /\ http[t] = <<>>
                          /\ SymbolsKey(TargetedPairs(t)) \in DOMAIN priceCache
                          /\ priceCache[SymbolsKey(TargetedPairs(t))].data.list = fetched[t]

\* C17, witness: a valuation of exactly 50 held assets has ended with the
\* snapshot request as its only price request
C17_Witness ==
    \E t \in Tasks :
        /\ Valued(t)
        /\ Len(HeldBalances(t)) = 50
        /\ http[t] = <<AllPricesRequest>>

\* task t has missed the cache and not yet written it: its fetch is in flight
InFlight(t) == pc[t] \in {"snapshot", "symbol"}

\* the cache key the fetch of t will write
FlightKey(t) == IF pc[t] = "snapshot" THEN AllPricesKey ELSE sp[t].key

\* C18: no price operation reads the cache, misses and starts a fetch while
\* another one is between its miss and its write of the same key: at most
\* one fetch per fingerprint is in flight.
C18_OneFetchPerFingerprint ==
    \A t, u \in Tasks :
        (t # u /\ InFlight(t) /\ InFlight(u)) => FlightKey(t) # FlightKey(u)

\* C19: makeRequest starts no wait after its last attempt: every wait follows
\* an attempt before the last, and a call that has ended has sent an attempt
\* after each of its waits.
C19_NoWaitAfterLastAttempt ==
    \A t \in Tasks :
        op[t].name = "makeRequest" =>
            /\ \A k \in 1..Len(waits[t]) : waits[t][k].after < op[t].args.retries
            /\ (pc[t] = "done" /\ waits[t] # <<>>) => Len(sent[t]) > Len(waits[t])

\* the symbols of a list, as a set
SymbolSet(list) == { list[i] : i \in 1..Len(list) }

\* C20: a getSymbolPrices call served from the cache is served the payload
\* that a getSymbolPrices call for the same set of symbols stored, never the
\* entry of getAllPrices nor that of another set of symbols.
C20_FingerprintsDoNotCollide ==
    \A t \in Tasks :
        (/\ pc[t] = "done"
         /\ op[t].name = "getSymbolPrices"
         /\ op[t].args # <<>>
         /\ result[t].kind = "value"
         /\ http[t] = <<>>)
        => /\ prev[t].stored.some
           /\ result[t] = Returned(prev[t].stored.payload)
           /\ prev[t].stored.by.name = "getSymbolPrices"
           /\ SymbolSet(prev[t].stored.by.args) = SymbolSet(op[t].args)

=============================================================================
